---- MODULE Spec2Model ----
(***************************************************************************)
(* Model of the road-traffic-accident reporting tool.  Two programs share  *)
(* the same menu and reports: the explicit-iteration one (prefix N_) and   *)
(* the fold/filter-style one (prefix F_).                                  *)
(*                                                                         *)
(* Python values are modelled as follows:                                  *)
(*   str used for periods  : sequence of one-character strings             *)
(*   other str             : TLA+ string (only compared for equality)      *)
(*   nullable str (fuel)   : None or Str(s)                                *)
(*   list                  : sequence                                      *)
(*   dict                  : sequence of <<key, value>> in insertion order *)
(*   print                 : one Line per call, umlauts of the texts       *)
(*                           transliterated                                *)
(* The model starts after json.load has succeeded; the dataset is never    *)
(* written afterwards.                                                     *)
(***************************************************************************)
EXTENDS Integers, Sequences, FiniteSets, TLC

VARIABLES data, pc, choice, call, resN, resF, outN, outF

vars == <<data, pc, choice, call, resN, resF, outN, outF>>

-----------------------------------------------------------------------------
(* Bounds of the model *)

MaxLen == 3

MaxN == 4

MaxNeg == 2

-----------------------------------------------------------------------------
(* Python strings, int(), str() and format specifications *)

Digits == <<"0", "1", "2", "3", "4", "5", "6", "7", "8", "9">>

DigitVal(c) == (CHOOSE i \in 1..10 : Digits[i] = c) - 1

\* code point of a character, as far as the ordering of periods needs it
Ord(c) == IF c = "-" THEN 45 ELSE 48 + DigitVal(c)

RECURSIVE StrLess(_, _)
\* a < b on str: lexicographic by code point, a proper prefix is smaller
StrLess(a, b) ==
    IF b = <<>> THEN FALSE
    ELSE IF a = <<>> THEN TRUE
    ELSE IF Head(a) # Head(b) THEN Ord(Head(a)) < Ord(Head(b))
    ELSE StrLess(Tail(a), Tail(b))

\* max(a, b): the first argument is kept unless the second is greater
StrMax(a, b) == IF StrLess(a, b) THEN b ELSE a

RECURSIVE Split(_, _)
\* s.split(sep) for a one-character separator
Split(s, sep) ==
    IF \A i \in 1..Len(s) : s[i] # sep THEN <<s>>
    ELSE LET k == CHOOSE i \in 1..Len(s) :
                     s[i] = sep /\ \A j \in 1..(i - 1) : s[j] # sep
         IN  <<SubSeq(s, 1, k - 1)>> \o Split(SubSeq(s, k + 1, Len(s)), sep)

RECURSIVE ParseNat(_)
ParseNat(s) ==
    IF s = <<>> THEN 0
    ELSE 10 * ParseNat(SubSeq(s, 1, Len(s) - 1)) + DigitVal(s[Len(s)])

\* int(s) for an optionally signed decimal literal
ParseInt(s) == IF s # <<>> /\ Head(s) = "-" THEN 0 - ParseNat(Tail(s)) ELSE ParseNat(s)

RECURSIVE NatStr(_)
NatStr(v) == IF v < 10 THEN <<Digits[v + 1]>> ELSE NatStr(v \div 10) \o <<Digits[(v % 10) + 1]>>

\* str(v) for an int: no padding, a leading minus sign for negatives
IntStr(v) == IF v < 0 THEN <<"-">> \o NatStr(0 - v) ELSE NatStr(v)

RECURSIVE ZeroPad(_, _)
ZeroPad(s, w) == IF Len(s) >= w THEN s ELSE ZeroPad(<<"0">> \o s, w)

\* f"{v:0wd}": sign-aware zero padding to a total width of w
FormatD(v, w) ==
    IF v < 0 THEN <<"-">> \o ZeroPad(NatStr(0 - v), w - 1) ELSE ZeroPad(NatStr(v), w)

\* f"{year:04d}-{month:02d}"
FormatYearMonth(year, month) == FormatD(year, 4) \o <<"-">> \o FormatD(month, 2)

\* range(n) as the sequence 0, 1, ..., n-1 (empty for n <= 0)
Range(n) == [i \in 1..n |-> i - 1]

-----------------------------------------------------------------------------
(* get_last_n_months_from_latest *)

RECURSIVE N_months_loop(_, _, _, _)
\* the for-loop of the explicit-iteration version: k iterations remain
N_months_loop(months, year, month, k) ==
    IF k <= 0 THEN months
    ELSE LET appended == Append(months, FormatYearMonth(year, month))
         IN  IF month = 1
             THEN N_months_loop(appended, year - 1, 12, k - 1)
             ELSE N_months_loop(appended, year, month - 1, k - 1)

N_get_last_n_months_from_latest(latest_year_month, n) ==
    LET parts == Split(latest_year_month, "-")
        latest_year == ParseInt(parts[1])
        latest_month == ParseInt(parts[2])
    IN  N_months_loop(<<>>, latest_year, latest_month, n)

get_previous_month(year_month, u) ==
    IF year_month[2] = 1 THEN <<year_month[1] - 1, 12>>
    ELSE <<year_month[1], year_month[2] - 1>>

F_get_last_n_months_from_latest(latest_year_month, n) ==
    LET parts == Split(latest_year_month, "-")
        latest_year == ParseInt(parts[1])
        latest_month == ParseInt(parts[2])
        months0 == <<<<latest_year, latest_month>>>>
        \* the list comprehension is built completely before extend() runs,
        \* so months[-1] is the same element in every iteration
        extension == [i \in 1..Len(Range(n - 1)) |->
                         get_previous_month(months0[Len(months0)], Range(n - 1)[i])]
        months == months0 \o extension
    IN  [i \in 1..Len(months) |-> FormatYearMonth(months[i][1], months[i][2])]

-----------------------------------------------------------------------------
(* Records, nullable strings and dicts *)

None == [t |-> "none"]

Str(s) == [t |-> "str", v |-> s]

\* truth value of a nullable str: None and "" are falsy
Falsy(x) == x = None \/ x = Str("")

\* variant: only None is replaced, as by "x if x is not None else default"
PyOr_NoneOnly(x, default) == IF x = None THEN default ELSE x.v

\* x or default, for a nullable str x and a str default
PyOr(x, default) == IF Falsy(x) THEN default ELSE x.v

Rec(p, g, f, t, a) ==
    [jahr_monat |-> p, gemeinde |-> g, fahrzeugart |-> f, treibstoff |-> t, anzahl |-> a]

RECURSIVE reduce(_, _, _)
\* functools.reduce(function, iterable, initializer)
reduce(f(_, _), s, acc) ==
    IF s = <<>> THEN acc ELSE reduce(f, Tail(s), f(acc, Head(s)))

\* filter(function, iterable), consumed once from left to right
filter(f(_), s) == SelectSeq(s, f)

\* x in list
InList(x, l) == \E i \in 1..Len(l) : l[i] = x

\* key in dict
DictHas(d, k) == \E i \in 1..Len(d) : d[i][1] = k

\* dict.get(key, default)
DictGet(d, k, default) ==
    IF DictHas(d, k) THEN d[CHOOSE i \in 1..Len(d) : d[i][1] = k][2] ELSE default

\* d[key] = value: an existing key keeps its position, a new key goes last
DictSet(d, k, v) ==
    IF DictHas(d, k)
    THEN [i \in 1..Len(d) |-> IF d[i][1] = k THEN <<k, v>> ELSE d[i]]
    ELSE Append(d, <<k, v>>)

\* variant: the updated key moves to the end of the dict
DictUnpackWith_KeyLast(acc, k, v) ==
    Append(SelectSeq(acc, LAMBDA item : item[1] # k), <<k, v>>)

\* {**acc, key: value}: a new dict filled with the items of acc, then key
DictUnpackWith(acc, k, v) ==
    DictSet(reduce(LAMBDA d, item : DictSet(d, item[1], item[2]), acc, <<>>), k, v)

\* dict.items()
Items(d) == d

-----------------------------------------------------------------------------
(* get_latest_date *)

RECURSIVE N_latest_loop(_, _)
N_latest_loop(latest_year_month, rest) ==
    IF rest = <<>> THEN latest_year_month
    ELSE IF StrLess(latest_year_month, Head(rest).jahr_monat)
         THEN N_latest_loop(Head(rest).jahr_monat, Tail(rest))
         ELSE N_latest_loop(latest_year_month, Tail(rest))

N_get_latest_date(d) == N_latest_loop(<<"0", "0", "0", "0", "-", "0", "0">>, d)

\* variant: the fold keeps the period of the last record
F_get_latest_date_last(d) ==
    reduce(LAMBDA latest, record : record.jahr_monat,
           d, <<"0", "0", "0", "0", "-", "0", "0">>)

F_get_latest_date(d) ==
    reduce(LAMBDA latest, record : StrMax(latest, record.jahr_monat),
           d, <<"0", "0", "0", "0", "-", "0", "0">>)

-----------------------------------------------------------------------------
(* print: one element per printed line, the format and the values filled in *)

Line(fmt, val) == [fmt |-> fmt, val |-> val]

print_record_info(record) ==
    << Line(" Jahr-Monat: {}", <<record.jahr_monat>>),
       Line(" Gemeinde: {}", <<record.gemeinde>>),
       Line(" Fahrzeugart: {}", <<record.fahrzeugart>>),
       Line(" Treibstoff: {}", <<PyOr(record.treibstoff, "Unbekannt")>>),
       Line(" Anzahl: {}", <<record.anzahl>>),
       Line("", <<>>) >>

RECURSIVE print_records(_)
\* for record in records: print_record_info(record)
print_records(records) ==
    IF records = <<>> THEN <<>>
    ELSE print_record_info(Head(records)) \o print_records(Tail(records))

RECURSIVE print_groups(_)
\* for municipality, records in accidents_per_municipality.items(): ...
print_groups(items) ==
    IF items = <<>> THEN <<>>
    ELSE <<Line("Gemeinde {}:", <<Head(items)[1]>>)>>
         \o print_records(Head(items)[2]) \o print_groups(Tail(items))

\* for key, count in totals.items(): print(f"{key}: {count} Fahrzeuge")
print_totals(items) ==
    [i \in 1..Len(items) |-> Line("{}: {} Fahrzeuge", <<items[i][1], items[i][2]>>)]

\* the two branches on the list of selected accidents
print_accidents(accidents, selected_municipality, n_years) ==
    IF accidents # <<>>
    THEN <<Line("Unfaelle in der Gemeinde {} in den letzten {} Jahren:",
                <<selected_municipality, n_years>>)>> \o print_records(accidents)
    ELSE <<Line("Keine Unfaelle in der Gemeinde {} in den letzten {} Jahren gefunden.",
                <<selected_municipality, n_years>>)>>

\* enumerate(iterable, 1)
enumerate1(s) == [i \in 1..Len(s) |-> <<i, s[i]>>]

print_ranking(ranked) ==
    <<Line("Rangliste der Anzahl Fahrzeuge pro Gemeinde:", <<>>)>>
    \o [i \in 1..Len(ranked) |->
           Line("{}. Gemeinde {}: {} Fahrzeuge",
                <<ranked[i][1], ranked[i][2][1], ranked[i][2][2]>>)]

-----------------------------------------------------------------------------
(* list_latest_accidents_per_municipality *)

RECURSIVE N_group_loop(_, _, _)
N_group_loop(accidents_per_municipality, rest, last_months) ==
    IF rest = <<>> THEN accidents_per_municipality
    ELSE LET record == Head(rest)
             municipality == record.gemeinde
             created == IF ~DictHas(accidents_per_municipality, municipality)
                        THEN DictSet(accidents_per_municipality, municipality, <<>>)
                        ELSE accidents_per_municipality
         IN  IF InList(record.jahr_monat, last_months)
             THEN N_group_loop(
                      DictSet(created, municipality,
                              Append(DictGet(created, municipality, <<>>), record)),
                      Tail(rest), last_months)
             ELSE N_group_loop(accidents_per_municipality, Tail(rest), last_months)

\* variant: a window of three months
N_list_latest_three_months(d) ==
    LET latest_year_month == N_get_latest_date(d)
        last_months == N_get_last_n_months_from_latest(latest_year_month, 3)
    IN  N_group_loop(<<>>, d, last_months)

N_list_latest_accidents_per_municipality(d) ==
    LET latest_year_month == N_get_latest_date(d)
        last_months == N_get_last_n_months_from_latest(latest_year_month, 2)
    IN  N_group_loop(<<>>, d, last_months)

filter_by_last_months(d, last_months) ==
    filter(LAMBDA record : InList(record.jahr_monat, last_months), d)

group_by_municipality(d) ==
    reduce(LAMBDA acc, record :
               DictUnpackWith(acc, record.gemeinde,
                              DictGet(acc, record.gemeinde, <<>>) \o <<record>>),
           d, <<>>)

F_list_latest_accidents_per_municipality(d) ==
    LET latest_year_month == F_get_latest_date(d)
        last_months == F_get_last_n_months_from_latest(latest_year_month, 2)
    IN  group_by_municipality(filter_by_last_months(d, last_months))

-----------------------------------------------------------------------------
(* accidents_in_municipality_last_n_years *)

\* [str(latest_year - i) for i in range(n_years)]
YearStrings(latest_year, n_years) ==
    [k \in 1..Len(Range(n_years)) |-> IntStr(latest_year - Range(n_years)[k])]

RECURSIVE N_accidents_loop(_, _, _, _)
N_accidents_loop(accidents, rest, years, selected_municipality) ==
    IF rest = <<>> THEN accidents
    ELSE LET record == Head(rest)
             year == Split(record.jahr_monat, "-")[1]
         IN  IF InList(year, years) /\ record.gemeinde = selected_municipality
             THEN N_accidents_loop(Append(accidents, record), Tail(rest),
                                   years, selected_municipality)
             ELSE N_accidents_loop(accidents, Tail(rest), years, selected_municipality)

N_accidents_in_municipality_last_n_years(d, selected_municipality, n_years) ==
    LET latest_year_month == N_get_latest_date(d)
        latest_year == ParseInt(Split(latest_year_month, "-")[1])
        years == YearStrings(latest_year, n_years)
    IN  N_accidents_loop(<<>>, d, years, selected_municipality)

F_accidents_in_municipality_last_n_years(d, selected_municipality, n_years) ==
    LET latest_year_month == F_get_latest_date(d)
        latest_year == ParseInt(Split(latest_year_month, "-")[1])
        years == YearStrings(latest_year, n_years)
    IN  filter(LAMBDA record :
                   /\ InList(Split(record.jahr_monat, "-")[1], years)
                   /\ record.gemeinde = selected_municipality,
               d)

-----------------------------------------------------------------------------
(* number_of_accidents_per_vehicle_type *)

RECURSIVE N_vehicle_loop_counting(_, _)
\* variant: counts the records instead of summing their quantity
N_vehicle_loop_counting(vehicle_types, rest) ==
    IF rest = <<>> THEN vehicle_types
    ELSE LET vehicle_type == Head(rest).fahrzeugart
         IN  N_vehicle_loop_counting(
                 DictSet(vehicle_types, vehicle_type,
                         DictGet(vehicle_types, vehicle_type, 0) + 1),
                 Tail(rest))

RECURSIVE N_vehicle_loop(_, _)
N_vehicle_loop(vehicle_types, rest) ==
    IF rest = <<>> THEN vehicle_types
    ELSE LET vehicle_type == Head(rest).fahrzeugart
         IN  N_vehicle_loop(
                 DictSet(vehicle_types, vehicle_type,
                         DictGet(vehicle_types, vehicle_type, 0) + Head(rest).anzahl),
                 Tail(rest))

N_number_of_accidents_per_vehicle_type(d) == N_vehicle_loop(<<>>, d)

F_number_of_accidents_per_vehicle_type(d) ==
    reduce(LAMBDA acc, record :
               DictUnpackWith(acc, record.fahrzeugart,
                              DictGet(acc, record.fahrzeugart, 0) + record.anzahl),
           d, <<>>)

-----------------------------------------------------------------------------
(* ranking_of_accidents_per_municipality *)

RECURSIVE N_municipality_loop(_, _)
N_municipality_loop(municipality_counts, rest) ==
    IF rest = <<>> THEN municipality_counts
    ELSE LET municipality == Head(rest).gemeinde
         IN  N_municipality_loop(
                 DictSet(municipality_counts, municipality,
                         DictGet(municipality_counts, municipality, 0) + Head(rest).anzahl),
                 Tail(rest))

F_municipality_counts(d) ==
    reduce(LAMBDA acc, record :
               DictUnpackWith(acc, record.gemeinde,
                              DictGet(acc, record.gemeinde, 0) + record.anzahl),
           d, <<>>)

\* variant: x goes in front of the elements with an equal key, as in an
\* ascending stable sort that is reversed afterwards
InsertDescending_TiesFirst(sortedItems, x) ==
    LET before == SelectSeq(sortedItems, LAMBDA y : y[2] > x[2])
        after == SelectSeq(sortedItems, LAMBDA y : y[2] <= x[2])
    IN  before \o <<x>> \o after

\* one step of a stable descending sort: x goes behind every element whose
\* key is greater than or equal to its own
InsertDescending(sortedItems, x) ==
    LET before == SelectSeq(sortedItems, LAMBDA y : y[2] >= x[2])
        after == SelectSeq(sortedItems, LAMBDA y : y[2] < x[2])
    IN  before \o <<x>> \o after

\* sorted(items, key=lambda x: x[1], reverse=True): stable, so items with
\* equal keys keep the order they have in items
sorted_reverse(items) == reduce(InsertDescending, items, <<>>)

N_ranking_of_accidents_per_municipality(d) ==
    enumerate1(sorted_reverse(Items(N_municipality_loop(<<>>, d))))

F_ranking_of_accidents_per_municipality(d) ==
    enumerate1(sorted_reverse(Items(F_municipality_counts(d))))

-----------------------------------------------------------------------------
(* number_of_accidents_per_fuel_type *)

RECURSIVE N_fuel_loop(_, _)
N_fuel_loop(fuel_types, rest) ==
    IF rest = <<>> THEN fuel_types
    ELSE LET fuel_type == PyOr(Head(rest).treibstoff, "Unbekannt")
         IN  N_fuel_loop(
                 DictSet(fuel_types, fuel_type,
                         DictGet(fuel_types, fuel_type, 0) + Head(rest).anzahl),
                 Tail(rest))

N_number_of_accidents_per_fuel_type(d) == N_fuel_loop(<<>>, d)

F_number_of_accidents_per_fuel_type(d) ==
    reduce(LAMBDA acc, record :
               DictUnpackWith(acc, PyOr(record.treibstoff, "Unbekannt"),
                              DictGet(acc, PyOr(record.treibstoff, "Unbekannt"), 0)
                                  + record.anzahl),
           d, <<>>)

-----------------------------------------------------------------------------
(* Inputs: datasets of well-formed records, menu input, municipality names *)

P(y1, y2, y3, y4, m1, m2) == <<y1, y2, y3, y4, "-", m1, m2>>

Periods ==
    { P("2", "0", "2", "3", "0", "1"), P("2", "0", "2", "2", "1", "2"),
      P("2", "0", "2", "2", "1", "1"), P("0", "9", "9", "9", "1", "2") }

\* records that differ in period and municipality
WindowRecords == { Rec(p, g, "car", Str("Benzin"), 1) : p \in Periods, g \in {"A", "B"} }

\* records that differ in municipality and quantity
MunicipalityRecords ==
    { Rec(P("2", "0", "2", "3", "0", "1"), g, "car", Str("Benzin"), a) :
          g \in {"A", "B", "C"}, a \in {1, 2} }

\* records that differ in vehicle type and quantity
VehicleRecords ==
    { Rec(P("2", "0", "2", "3", "0", "1"), "A", f, Str("Benzin"), a) :
          f \in {"car", "bike"}, a \in {1, 2, 3} }

\* records that differ in fuel type and quantity
FuelRecords ==
    { Rec(P("2", "0", "2", "3", "0", "1"), "A", "car", t, a) :
          t \in {None, Str("")}, a \in {1, 2} }
    \cup { Rec(P("2", "0", "2", "3", "0", "1"), "A", "car", t, 1) :
               t \in {Str("Unknown"), Str("Unbekannt")} }

BoundedSeq(S) == UNION { [1..k -> S] : k \in 0..MaxLen }

Datasets ==
    BoundedSeq(WindowRecords) \cup BoundedSeq(MunicipalityRecords)
        \cup BoundedSeq(VehicleRecords) \cup BoundedSeq(FuelRecords)

\* what the user may type at the menu prompt
Inputs == {"1", "2", "3", "4", "5", "6", "7", ""}

\* what the user may type at the municipality prompt
NameInputs == {"A", "a", "Z"}

\* well-formed periods handed to get_last_n_months_from_latest
LatestPeriods ==
    { FormatYearMonth(y, m) : y \in {1, 999, 2023}, m \in 1..12 }

NoCall == [fn |-> "none", args |-> <<>>]

Call(fn, args) == [fn |-> fn, args |-> args]

MenuText ==
    << Line("Bitte waehlen Sie eine Funktion aus:", <<>>),
       Line("1. Liste der neusten Fahrzeuge (letzte 2 Monate) pro Gemeinde", <<>>),
       Line("2. Die Fahrzeuge einer ausgewaehlten Gemeinde in den letzten 2 Jahren", <<>>),
       Line("3. Gibt die Anzahl der Fahrzeuge pro Fahrzeugart aus", <<>>),
       Line("4. Rangliste der Anzahl Fahrzeuge pro Gemeinde", <<>>),
       Line("5. Anzahl der Fahrzeuge pro Treibstoffart", <<>>),
       Line("6. Beenden", <<>>) >>

-----------------------------------------------------------------------------
(* main: the menu loop of both programs, run side by side on the same input *)

Init ==
    /\ data \in Datasets
    /\ pc = "menu"
    /\ choice = ""
    /\ call = NoCall
    /\ resN = <<>> /\ resF = <<>>
    /\ outN = <<>> /\ outF = <<>>

Option1(c) ==
    /\ pc = "menu" /\ c = "1"
    /\ choice' = c
    /\ call' = Call("list_latest_accidents_per_municipality", <<>>)
    /\ resN' = N_list_latest_accidents_per_municipality(data)
    /\ resF' = F_list_latest_accidents_per_municipality(data)
    /\ outN' = MenuText \o print_groups(Items(resN'))
    /\ outF' = MenuText \o print_groups(Items(resF'))
    /\ UNCHANGED <<data, pc>>

Option2(c, selected_municipality) ==
    /\ pc = "menu" /\ c # "1" /\ c = "2"
    /\ choice' = c
    /\ call' = Call("accidents_in_municipality_last_n_years", <<selected_municipality, 2>>)
    /\ resN' = N_accidents_in_municipality_last_n_years(data, selected_municipality, 2)
    /\ resF' = F_accidents_in_municipality_last_n_years(data, selected_municipality, 2)
    /\ outN' = MenuText \o print_accidents(resN', selected_municipality, 2)
    /\ outF' = MenuText \o print_accidents(resF', selected_municipality, 2)
    /\ UNCHANGED <<data, pc>>

Option3(c) ==
    /\ pc = "menu" /\ c \notin {"1", "2"} /\ c = "3"
    /\ choice' = c
    /\ call' = Call("number_of_accidents_per_vehicle_type", <<>>)
    /\ resN' = N_number_of_accidents_per_vehicle_type(data)
    /\ resF' = F_number_of_accidents_per_vehicle_type(data)
    /\ outN' = MenuText \o print_totals(Items(resN'))
    /\ outF' = MenuText \o print_totals(Items(resF'))
    /\ UNCHANGED <<data, pc>>

Option4(c) ==
    /\ pc = "menu" /\ c \notin {"1", "2", "3"} /\ c = "4"
    /\ choice' = c
    /\ call' = Call("ranking_of_accidents_per_municipality", <<>>)
    /\ resN' = N_ranking_of_accidents_per_municipality(data)
    /\ resF' = F_ranking_of_accidents_per_municipality(data)
    /\ outN' = MenuText \o print_ranking(resN')
    /\ outF' = MenuText \o print_ranking(resF')
    /\ UNCHANGED <<data, pc>>

Option5(c) ==
    /\ pc = "menu" /\ c \notin {"1", "2", "3", "4"} /\ c = "5"
    /\ choice' = c
    /\ call' = Call("number_of_accidents_per_fuel_type", <<>>)
    /\ resN' = N_number_of_accidents_per_fuel_type(data)
    /\ resF' = F_number_of_accidents_per_fuel_type(data)
    /\ outN' = MenuText \o print_totals(Items(resN'))
    /\ outF' = MenuText \o print_totals(Items(resF'))
    /\ UNCHANGED <<data, pc>>

Option6(c) ==
    /\ pc = "menu" /\ c \notin {"1", "2", "3", "4", "5"} /\ c = "6"
    /\ choice' = c
    /\ call' = NoCall
    /\ resN' = <<>> /\ resF' = <<>>
    /\ outN' = MenuText \o <<Line("Programm beendet.", <<>>)>>
    /\ outF' = MenuText \o <<Line("Programm beendet.", <<>>)>>
    /\ pc' = "done"
    /\ UNCHANGED data

\* variant: an invalid selection leaves the loop
InvalidChoice_breaks(c) ==
    /\ pc = "menu" /\ c \notin {"1", "2", "3", "4", "5", "6"}
    /\ choice' = c
    /\ call' = NoCall
    /\ resN' = <<>> /\ resF' = <<>>
    /\ outN' = MenuText \o <<Line("Ungueltige Auswahl. Bitte versuchen Sie es erneut.", <<>>)>>
    /\ outF' = MenuText \o <<Line("Ungueltige Auswahl. Bitte versuchen Sie es erneut.", <<>>)>>
    /\ pc' = "done"
    /\ UNCHANGED data

InvalidChoice(c) ==
    /\ pc = "menu" /\ c \notin {"1", "2", "3", "4", "5", "6"}
    /\ choice' = c
    /\ call' = NoCall
    /\ resN' = <<>> /\ resF' = <<>>
    /\ outN' = MenuText \o <<Line("Ungueltige Auswahl. Bitte versuchen Sie es erneut.", <<>>)>>
    /\ outF' = MenuText \o <<Line("Ungueltige Auswahl. Bitte versuchen Sie es erneut.", <<>>)>>
    /\ UNCHANGED <<data, pc>>

Next ==
    \E c \in Inputs :
        \/ Option1(c)
        \/ \E m \in NameInputs : Option2(c, m)
        \/ Option3(c)
        \/ Option4(c)
        \/ Option5(c)
        \/ Option6(c)
        \/ InvalidChoice(c)

Spec == Init /\ [][Next]_vars

-----------------------------------------------------------------------------
(* The report functions called directly, with arbitrary arguments *)

InitFn ==
    /\ data \in Datasets
    /\ pc = "call"
    /\ choice = ""
    /\ call = NoCall
    /\ resN = <<>> /\ resF = <<>>
    /\ outN = <<>> /\ outF = <<>>

Call_get_latest_date ==
    /\ pc = "call"
    /\ call' = Call("get_latest_date", <<>>)
    /\ resN' = N_get_latest_date(data)
    /\ resF' = F_get_latest_date(data)
    /\ outN' = <<>> /\ outF' = <<>>
    /\ pc' = "returned"
    /\ UNCHANGED <<data, choice>>

Call_accidents_in_municipality_last_n_years(selected_municipality, n_years) ==
    /\ pc = "call"
    /\ call' = Call("accidents_in_municipality_last_n_years",
                    <<selected_municipality, n_years>>)
    /\ resN' = N_accidents_in_municipality_last_n_years(data, selected_municipality, n_years)
    /\ resF' = F_accidents_in_municipality_last_n_years(data, selected_municipality, n_years)
    /\ outN' = print_accidents(resN', selected_municipality, n_years)
    /\ outF' = print_accidents(resF', selected_municipality, n_years)
    /\ pc' = "returned"
    /\ UNCHANGED <<data, choice>>

NextFn ==
    \/ Call_get_latest_date
    \/ \E m \in NameInputs, n \in 0..MaxN :
           Call_accidents_in_municipality_last_n_years(m, n)

SpecFn == InitFn /\ [][NextFn]_vars

InitMonths ==
    /\ data = <<>>
    /\ pc = "call"
    /\ choice = ""
    /\ call = NoCall
    /\ resN = <<>> /\ resF = <<>>
    /\ outN = <<>> /\ outF = <<>>

Call_get_last_n_months_from_latest(latest_year_month, n) ==
    /\ pc = "call"
    /\ call' = Call("get_last_n_months_from_latest", <<latest_year_month, n>>)
    /\ resN' = N_get_last_n_months_from_latest(latest_year_month, n)
    /\ resF' = F_get_last_n_months_from_latest(latest_year_month, n)
    /\ outN' = <<>> /\ outF' = <<>>
    /\ pc' = "returned"
    /\ UNCHANGED <<data, choice>>

NextMonths ==
    \E latest \in LatestPeriods, n \in (0 - MaxNeg)..MaxN :
        Call_get_last_n_months_from_latest(latest, n)

SpecMonths == InitMonths /\ [][NextMonths]_vars

-----------------------------------------------------------------------------
(* Vocabulary of the properties, independent of the report functions *)

IsDigit(c) == \E i \in 1..10 : Digits[i] = c

\* YYYY-MM with month 01-12
WellFormed(s) ==
    /\ Len(s) = 7
    /\ s[5] = "-"
    /\ \A i \in {1, 2, 3, 4, 6, 7} : IsDigit(s[i])
    /\ ParseNat(SubSeq(s, 6, 7)) \in 1..12

YearOf(s) == ParseNat(SubSeq(s, 1, 4))

\* number of the calendar month of a well-formed period, counted from 0000-01
MonthIndex(s) == 12 * YearOf(s) + ParseNat(SubSeq(s, 6, 7)) - 1

RECURSIVE SumSeq(_)
SumSeq(q) == IF q = <<>> THEN 0 ELSE Head(q) + SumSeq(Tail(q))

\* sum of the quantity field over the records of d that satisfy Sel
Quantity(d, Sel(_)) ==
    LET sel == SelectSeq(d, Sel) IN SumSeq([i \in 1..Len(sel) |-> sel[i].anzahl])

\* position of the first record of d that satisfies Sel
FirstIndex(d, Sel(_)) == CHOOSE i \in 1..Len(d) : Sel(d[i]) /\ \A j \in 1..(i - 1) : ~Sel(d[j])

Called(fn) == call.fn = fn

Results == {resN, resF}

\* a dict that maps exactly the keys Key(record) of d, each once, to the sum
\* of the quantities of the records with that key
IsSumBy(dict, d, Key(_)) ==
    /\ \A i \in 1..Len(d) : \E k \in 1..Len(dict) : dict[k][1] = Key(d[i])
    /\ \A k \in 1..Len(dict) :
          /\ \E i \in 1..Len(d) : Key(d[i]) = dict[k][1]
          /\ \A l \in 1..Len(dict) : dict[l][1] = dict[k][1] => l = k
          /\ dict[k][2] = Quantity(d, LAMBDA r : Key(r) = dict[k][1])

-----------------------------------------------------------------------------
(* C1, C2: get_last_n_months_from_latest *)

IsMonthWindow(months, latest, n) ==
    /\ Len(months) = n
    /\ months[1] = latest
    /\ \A i \in 1..(n - 1) :
          /\ WellFormed(months[i + 1])
          /\ MonthIndex(months[i + 1]) = MonthIndex(months[i]) - 1

\* C1: for a well-formed latest period and n >= 1 both implementations return
\* exactly n periods, starting at latest, each one calendar month before the
\* previous one.
C1_LastNMonths ==
    (Called("get_last_n_months_from_latest") /\ call.args[2] >= 1)
        => \A months \in Results : IsMonthWindow(months, call.args[1], call.args[2])

\* C2: for n <= 0 both implementations return the empty sequence.
C2_NonPositiveIsEmpty ==
    (Called("get_last_n_months_from_latest") /\ call.args[2] <= 0)
        => \A months \in Results : months = <<>>

-----------------------------------------------------------------------------
(* C3: ranking_of_accidents_per_municipality *)

\* the <<municipality, total>> items of a ranking, in output order
RankedItems(ranked) == [i \in 1..Len(ranked) |-> ranked[i][2]]

IsRanking(ranked, d) ==
    /\ IsSumBy(RankedItems(ranked), d, LAMBDA r : r.gemeinde)
    /\ \A i \in 1..Len(ranked) : ranked[i][1] = i
    /\ \A i, j \in 1..Len(ranked) :
          i < j =>
             /\ ranked[i][2][2] >= ranked[j][2][2]
             /\ ranked[i][2][2] = ranked[j][2][2] =>
                   FirstIndex(d, LAMBDA r : r.gemeinde = ranked[i][2][1])
                       < FirstIndex(d, LAMBDA r : r.gemeinde = ranked[j][2][1])

\* C3: the ranking lists every municipality once with its total, by total
\* descending, equal totals in order of first occurrence, ranks 1..k without
\* gap or shared rank.
C3_Ranking ==
    Called("ranking_of_accidents_per_municipality")
        => \A ranked \in Results : IsRanking(ranked, data)

\* three municipalities, the first one encountered has the smallest total and
\* the other two are tied
C3_Witness ==
    /\ Called("ranking_of_accidents_per_municipality")
    /\ Len(resN) = 3 /\ Len(resF) = 3
    /\ resN[1][2][2] = resN[2][2][2]
    /\ resN[3][2][2] < resN[2][2][2]
    /\ data[1].gemeinde = resN[3][2][1]
    /\ resN[2][1] = 2

-----------------------------------------------------------------------------
(* C4: number_of_accidents_per_fuel_type *)

NullOrEmpty(r) == r.treibstoff = None \/ r.treibstoff = Str("")

\* the bucket named sentinel receives the null, empty and literal-sentinel
\* records and nothing else; no empty key occurs
MergesInto(fuel_types, d, sentinel) ==
    /\ \A k \in 1..Len(fuel_types) : fuel_types[k][1] # ""
    /\ (\E i \in 1..Len(d) : NullOrEmpty(d[i])) =>
          /\ \E k \in 1..Len(fuel_types) : fuel_types[k][1] = sentinel
          /\ \A k \in 1..Len(fuel_types) :
                fuel_types[k][1] = sentinel =>
                   fuel_types[k][2] =
                       Quantity(d, LAMBDA r : NullOrEmpty(r) \/ r.treibstoff = Str(sentinel))

\* C4 as stated: null and empty fuel types are counted in the bucket "Unknown",
\* together with the records whose fuel type is literally "Unknown".
C4_UnknownBucket ==
    Called("number_of_accidents_per_fuel_type")
        => \A fuel_types \in Results : MergesInto(fuel_types, data, "Unknown")

\* C4 amended: the bucket is "Unbekannt"; it also receives the records whose
\* fuel type is literally "Unbekannt", its total is the sum of the quantities
\* of all those records, no null or empty key occurs, and every other fuel
\* type (the literal "Unknown" among them) keeps a bucket of its own.
C4_UnbekanntBucket ==
    Called("number_of_accidents_per_fuel_type")
        => \A fuel_types \in Results :
              /\ MergesInto(fuel_types, data, "Unbekannt")
              /\ IsSumBy(fuel_types, data,
                         LAMBDA r : IF NullOrEmpty(r) THEN "Unbekannt" ELSE r.treibstoff.v)

\* a null, an empty and a literal "Unbekannt" record were merged
C4_Witness ==
    /\ Called("number_of_accidents_per_fuel_type")
    /\ \E i, j, k \in 1..Len(data) :
          /\ data[i].treibstoff = None
          /\ data[j].treibstoff = Str("")
          /\ data[k].treibstoff = Str("Unbekannt")
    /\ Len(resN) = 1 /\ resN[1][1] = "Unbekannt" /\ resN[1][2] >= 3
    /\ Len(resF) = 1

-----------------------------------------------------------------------------
(* C5: per-vehicle-type and per-municipality totals *)

\* C5: the totals map each key that occurs to the sum of the quantities of
\* all records with that key, and contain no other key.
C5_Totals ==
    /\ Called("number_of_accidents_per_vehicle_type")
          => \A vehicle_types \in Results :
                IsSumBy(vehicle_types, data, LAMBDA r : r.fahrzeugart)
    /\ Called("ranking_of_accidents_per_municipality")
          => \A ranked \in Results :
                IsSumBy(RankedItems(ranked), data, LAMBDA r : r.gemeinde)

\* car:2, car:3, bike:1 gave {car: 5, bike: 1}
C5_Witness ==
    /\ Called("number_of_accidents_per_vehicle_type")
    /\ Len(data) = 3
    /\ data[1].fahrzeugart = "car" /\ data[1].anzahl = 2
    /\ data[2].fahrzeugart = "car" /\ data[2].anzahl = 3
    /\ data[3].fahrzeugart = "bike" /\ data[3].anzahl = 1
    /\ resN = <<<<"car", 5>>, <<"bike", 1>>>>
    /\ resF = <<<<"car", 5>>, <<"bike", 1>>>>

-----------------------------------------------------------------------------
(* C6: list_latest_accidents_per_municipality *)

\* the period of r is the latest period of d or the month before it
InLatestTwoMonths(r, d) ==
    \E i \in 1..Len(d) :
        /\ \A j \in 1..Len(d) : MonthIndex(d[j].jahr_monat) <= MonthIndex(d[i].jahr_monat)
        /\ MonthIndex(r.jahr_monat) \in
               { MonthIndex(d[i].jahr_monat), MonthIndex(d[i].jahr_monat) - 1 }

IsLatestGrouping(groups, d) ==
    /\ \A i \in 1..Len(d) :
          InLatestTwoMonths(d[i], d) => \E k \in 1..Len(groups) : groups[k][1] = d[i].gemeinde
    /\ \A k \in 1..Len(groups) :
          /\ \A l \in 1..Len(groups) : groups[l][1] = groups[k][1] => l = k
          /\ groups[k][2] # <<>>
          /\ groups[k][2] =
                 SelectSeq(d, LAMBDA r : r.gemeinde = groups[k][1] /\ InLatestTwoMonths(r, d))

\* C6: a record is listed iff its period is the latest period or the month
\* before it, exactly once, under its own municipality, in input order.
C6_LatestTwoMonths ==
    Called("list_latest_accidents_per_municipality")
        => \A groups \in Results : IsLatestGrouping(groups, data)

\* the dataset holds a record of the latest month, of the month before and of
\* a third month, and only the first two are listed
C6_Witness ==
    /\ Called("list_latest_accidents_per_municipality")
    /\ \E i, j, k \in 1..Len(data) :
          /\ InLatestTwoMonths(data[i], data)
          /\ InLatestTwoMonths(data[j], data)
          /\ MonthIndex(data[j].jahr_monat) = MonthIndex(data[i].jahr_monat) - 1
          /\ MonthIndex(data[k].jahr_monat) = MonthIndex(data[i].jahr_monat) - 2
    /\ SumSeq([k \in 1..Len(resN) |-> Len(resN[k][2])]) = 2
    /\ SumSeq([k \in 1..Len(resF) |-> Len(resF[k][2])]) = 2

-----------------------------------------------------------------------------
(* C7: accidents_in_municipality_last_n_years *)

\* the year of the latest period of d
LatestYear(d) ==
    YearOf(d[CHOOSE i \in 1..Len(d) :
                 \A j \in 1..Len(d) :
                     MonthIndex(d[j].jahr_monat) <= MonthIndex(d[i].jahr_monat)].jahr_monat)

IsYearSelection(accidents, d, municipality, n_years) ==
    accidents =
        SelectSeq(d, LAMBDA r :
                         /\ r.gemeinde = municipality
                         /\ \E i \in 0..(n_years - 1) :
                               YearOf(r.jahr_monat) = LatestYear(d) - i)

\* C7: the selection holds exactly the records, in input order, of the given
\* municipality whose year is one of the n years ending at the latest year;
\* it is empty for an unknown municipality and for the empty dataset.
C7_YearSelection ==
    Called("accidents_in_municipality_last_n_years")
        => \A accidents \in Results :
              IsYearSelection(accidents, data, call.args[1], call.args[2])

-----------------------------------------------------------------------------
(* C8: get_latest_date *)

IsLatestPeriod(latest, d) ==
    /\ d = <<>> => latest = <<"0", "0", "0", "0", "-", "0", "0">>
    /\ d # <<>> =>
          /\ \E i \in 1..Len(d) : d[i].jahr_monat = latest
          /\ \A i \in 1..Len(d) :
                /\ ~StrLess(latest, d[i].jahr_monat)
                /\ MonthIndex(d[i].jahr_monat) <= MonthIndex(latest)

\* C8: get_latest_date gives "0000-00" for the empty dataset and otherwise the
\* period of a record that no period of the dataset exceeds, lexically and
\* chronologically.
C8_LatestPeriod ==
    Called("get_latest_date") => \A latest \in Results : IsLatestPeriod(latest, data)

\* the latest period is neither the first nor the last record
C8_Witness ==
    /\ Called("get_latest_date")
    /\ Len(data) = 3
    /\ StrLess(data[1].jahr_monat, data[2].jahr_monat)
    /\ StrLess(data[3].jahr_monat, data[2].jahr_monat)
    /\ resN = data[2].jahr_monat /\ resF = data[2].jahr_monat

-----------------------------------------------------------------------------
(* C9: the menu loop *)

ReportOf(c) ==
    CASE c = "1" -> "list_latest_accidents_per_municipality"
      [] c = "2" -> "accidents_in_municipality_last_n_years"
      [] c = "3" -> "number_of_accidents_per_vehicle_type"
      [] c = "4" -> "ranking_of_accidents_per_municipality"
      [] c = "5" -> "number_of_accidents_per_fuel_type"
      [] OTHER -> "none"

InvalidLine == Line("Ungueltige Auswahl. Bitte versuchen Sie es erneut.", <<>>)

LoopStep ==
    /\ pc = "menu"
    /\ pc' = "done" <=> choice' = "6"
    /\ call'.fn = ReportOf(choice')
    /\ choice' \notin {"1", "2", "3", "4", "5", "6"} <=>
          \E k \in 1..Len(outN') : outN'[k] = InvalidLine
    /\ choice' \notin {"1", "2", "3", "4", "5", "6"} <=>
          \E k \in 1..Len(outF') : outF'[k] = InvalidLine
    /\ data' = data

\* C9: every step of the loop starts at the menu; it ends the loop exactly
\* when 6 was entered, runs exactly the report of a selection 1-5, and for
\* any other input runs no report, prints the invalid-input message and
\* returns to the menu; after 6 nothing more happens.
C9_MenuLoop == [][LoopStep]_vars

\* an invalid selection was answered and the menu is open again
C9_Witness ==
    /\ pc = "menu"
    /\ choice = "7"
    /\ call = NoCall
    /\ outN[Len(outN)] = InvalidLine /\ outF[Len(outF)] = InvalidLine

-----------------------------------------------------------------------------
(* C10: equivalence of the two programs *)

\* C10: on the same dataset and the same input both programs print the same
\* output at every step, from equal results.
C10_SameOutput == outN = outF /\ resN = resF

\* a report with two groups and several records was printed
C10_Witness ==
    /\ Called("list_latest_accidents_per_municipality")
    /\ Len(resF) = 2
    /\ Len(resF[1][2]) = 2
    /\ Len(outF) > Len(MenuText)

====
